---------------------------- MODULE Spec2Model ----------------------------
(***************************************************************************)
(* Model of data/web_crawling.py: the line chunker chunk_text_for_agent    *)
(* and the orchestration function crawl_womens_running_shoes.              *)
(*                                                                         *)
(* A Python str is a sequence of one-character strings.  The alphabet has  *)
(* one ordinary character, one in-line whitespace character and the line   *)
(* break, which is all that str.split("\n"), len and str.strip tell apart. *)
(***************************************************************************)
EXTENDS Naturals, Sequences, FiniteSets

\* ---------------------------------------------------------------- bounds
MaxTextLen == 5
MaxLimit == 5
MaxItems == 2

\* ------------------------------------------------------------ characters
NL == "\n"
SP == " "
Alphabet == {"a", SP, NL}
Whitespace == {SP, NL}

Texts == UNION {[1..k -> Alphabet] : k \in 0..MaxTextLen}
Limits == 1..MaxLimit

\* -------------------------------------------------- str.split and strip
\* text.split("\n"): the pieces between line breaks; "" gives [""].
RECURSIVE Split(_)
Split(s) ==
  IF \A k \in 1..Len(s) : s[k] # NL
    THEN <<s>>
    ELSE LET k == CHOOSE j \in 1..Len(s) :
                    s[j] = NL /\ \A h \in 1..(j - 1) : s[h] # NL
         IN  <<SubSeq(s, 1, k - 1)>> \o Split(SubSeq(s, k + 1, Len(s)))

RECURSIVE LStrip(_)
LStrip(s) ==
  IF s # <<>> /\ Head(s) \in Whitespace THEN LStrip(Tail(s)) ELSE s

RECURSIVE RStrip(_)
RStrip(s) ==
  IF s # <<>> /\ s[Len(s)] \in Whitespace
    THEN RStrip(SubSeq(s, 1, Len(s) - 1))
    ELSE s

\* str.strip(): leading and trailing whitespace removed.
Strip(s) == RStrip(LStrip(s))

\* ------------------------------------------------- chunk_text_for_agent
\* line 35: the test that keeps the paragraph in the accumulator
FitsNoParagraph(cur, paragraph, m) == Len(cur) + 1 <= m
FitsStrict(cur, paragraph, m) == Len(cur) + Len(paragraph) + 1 < m
Fits(cur, paragraph, m) == Len(cur) + Len(paragraph) + 1 <= m

\* line 36: current += paragraph + "\n"
Extend(cur, paragraph) == cur \o paragraph \o <<NL>>

\* line 40: current = paragraph + "\n"
RestartKeep(cur, paragraph) == cur \o paragraph \o <<NL>>
Restart(cur, paragraph) == paragraph \o <<NL>>

\* lines 38-39 and 41-42: if current: chunks.append(current.strip())
FlushDrop(cs, cur) == cs
Flush(cs, cur) == IF cur # <<>> THEN Append(cs, Strip(cur)) ELSE cs

\* lines 34-40 from paragraph number k on, then lines 41-43
RECURSIVE ChunkLoop(_, _, _, _, _)
ChunkLoop(ls, k, cur, cs, m) ==
  IF k > Len(ls)
    THEN Flush(cs, cur)
    ELSE IF Fits(cur, ls[k], m)
           THEN ChunkLoop(ls, k + 1, Extend(cur, ls[k]), cs, m)
           ELSE ChunkLoop(ls, k + 1, Restart(cur, ls[k]), Flush(cs, cur), m)

chunk_text_for_agent(t, m) == ChunkLoop(Split(t), 1, <<>>, <<>>, m)

\* ------------------------------------------- crawl_womens_running_shoes
\* line 122: chunk_text_for_agent(text, max_chunk_chars=1200)
CrawlMaxChunkChars == 1200

\* os.getenv(name, default): the variable's value, or default when unset
Getenv(e, default) == IF e.set THEN e.value ELSE default

\* the process environment: APIFY_API_TOKEN unset, set to "", set to a token
Environments ==
  { [set |-> FALSE, value |-> ""],
    [set |-> TRUE, value |-> ""],
    [set |-> TRUE, value |-> "token"] }

\* page texts the external service may return
ItemTexts == {<<>>, <<"a">>, <<"a", NL, "a">>}

\* a service item: the optional fields `text` and `markdown`
Items ==
  { it \in [has_text : BOOLEAN, text : ItemTexts,
            has_markdown : BOOLEAN, markdown : ItemTexts] :
      /\ (~it.has_text => it.text = <<>>)
      /\ (~it.has_markdown => it.markdown = <<>>) }

ItemLists == UNION {[1..k -> Items] : k \in 0..MaxItems}

\* markdownify.markdownify(html): library code; the empty document converts
\* to the empty string, any other result is left open
MarkdownifyResults(html) == IF html = <<>> THEN {<<>>} ELSE ItemTexts

\* it.get("text", "")
GetText(it) == IF it.has_text THEN it.text ELSE <<>>

\* lines 112-127: the PageRecord of one item, md the markdownify result
Entry(it, md) ==
  LET markdown == IF it.has_markdown /\ it.markdown # <<>>
                    THEN it.markdown ELSE md
      txt == IF GetText(it) # <<>> THEN GetText(it) ELSE markdown
  IN  [text |-> txt, chunks |-> chunk_text_for_agent(txt, CrawlMaxChunkChars)]

\* line 107: the for loop has consumed every item
LoopDoneEarly(its, out) == Len(out) + 1 >= Len(its)
LoopDone(its, out) == Len(out) = Len(its)

\* lines 132-133: the file after json.dump(output, f)
FileSkipEmpty(out) ==
  IF out = <<>> THEN [written |-> FALSE, content |-> <<>>]
                ELSE [written |-> TRUE, content |-> out]
FileAfterDump(out) == [written |-> TRUE, content |-> out]

NoFile == [written |-> FALSE, content |-> <<>>]
NoResult == [returned |-> FALSE, value |-> <<>>]

\* ------------------------------------------------------------------ state
VARIABLES
  text,             \* chunker: argument text
  max_chunk_chars,  \* chunker: argument max_chunk_chars
  idx,              \* chunker: paragraphs of text.split("\n") consumed
  current,          \* chunker: the accumulator
  chunks,           \* chunker: the chunks emitted so far
  cpc,              \* chunker: "loop", "done" ("idle" when not running)
  env,              \* crawl: APIFY_API_TOKEN in the environment
  pc,               \* crawl: position in crawl_womens_running_shoes
  api_key,          \* crawl: local api_key
  items,            \* crawl: local items
  output,           \* crawl: local output
  file,             \* crawl: the file output_json
  actor_calls,      \* crawl: calls of client.actor(...).call made
  list_calls,       \* crawl: calls of client.dataset(...).list_items made
  error,            \* crawl: the exception that left the function
  result            \* crawl: the value returned

cvars == <<text, max_chunk_chars, idx, current, chunks, cpc>>
kvars == <<env, pc, api_key, items, output, file, actor_calls, list_calls,
           error, result>>
vars == <<cvars, kvars>>

paragraphs == Split(text)

ChunkerIdle ==
  /\ text = <<>>
  /\ max_chunk_chars = CrawlMaxChunkChars
  /\ idx = 0
  /\ current = <<>>
  /\ chunks = <<>>
  /\ cpc = "idle"

CrawlIdle ==
  /\ env = [set |-> FALSE, value |-> ""]
  /\ pc = "idle"
  /\ api_key = ""
  /\ items = <<>>
  /\ output = <<>>
  /\ file = NoFile
  /\ actor_calls = 0
  /\ list_calls = 0
  /\ error = "none"
  /\ result = NoResult

\* ---------------------------------------------------- chunker, by step
\* lines 30-33: a call chunk_text_for_agent(text, max_chunk_chars)
InitChunk ==
  /\ text \in Texts
  /\ max_chunk_chars \in Limits
  /\ idx = 0
  /\ current = <<>>
  /\ chunks = <<>>
  /\ cpc = "loop"
  /\ CrawlIdle

\* lines 35-36: the paragraph fits and joins the accumulator
ChunkAppend ==
  /\ cpc = "loop"
  /\ idx < Len(paragraphs)
  /\ Fits(current, paragraphs[idx + 1], max_chunk_chars)
  /\ current' = Extend(current, paragraphs[idx + 1])
  /\ idx' = idx + 1
  /\ UNCHANGED <<text, max_chunk_chars, chunks, cpc, kvars>>

\* lines 37-40: the paragraph does not fit; flush, then restart with it
ChunkOverflow ==
  /\ cpc = "loop"
  /\ idx < Len(paragraphs)
  /\ ~Fits(current, paragraphs[idx + 1], max_chunk_chars)
  /\ chunks' = Flush(chunks, current)
  /\ current' = Restart(current, paragraphs[idx + 1])
  /\ idx' = idx + 1
  /\ UNCHANGED <<text, max_chunk_chars, cpc, kvars>>

\* lines 41-43: the loop is over; flush the accumulator and return chunks
ChunkReturn ==
  /\ cpc = "loop"
  /\ idx = Len(paragraphs)
  /\ chunks' = Flush(chunks, current)
  /\ cpc' = "done"
  /\ UNCHANGED <<text, max_chunk_chars, idx, current, kvars>>

NextChunk == ChunkAppend \/ ChunkOverflow \/ ChunkReturn

SpecChunk == InitChunk /\ [][NextChunk]_vars

\* ------------------------------------------------------ crawl, by step
InitCrawl ==
  /\ env \in Environments
  /\ pc = "start"
  /\ api_key = ""
  /\ items = <<>>
  /\ output = <<>>
  /\ file = NoFile
  /\ actor_calls = 0
  /\ list_calls = 0
  /\ error = "none"
  /\ result = NoResult
  /\ ChunkerIdle

\* lines 72-76: read the credential, raise ValueError when it is falsy
CheckCredential ==
  /\ pc = "start"
  /\ api_key' = Getenv(env, "Mask")
  /\ IF api_key' = ""
       THEN pc' = "failed" /\ error' = "ValueError"
       ELSE pc' = "ready" /\ error' = error
  /\ UNCHANGED <<env, items, output, file, actor_calls, list_calls, result,
                 cvars>>

\* lines 98-102: client.actor(...).call(run_input) returns a run
ActorCallReturns ==
  /\ pc = "ready"
  /\ actor_calls' = actor_calls + 1
  /\ pc' = "called"
  /\ UNCHANGED <<env, api_key, items, output, file, list_calls, error, result,
                 cvars>>

\* line 99: client.actor(...).call raises (timeout, rejected token, ...)
ActorCallRaises ==
  /\ pc = "ready"
  /\ actor_calls' = actor_calls + 1
  /\ pc' = "failed"
  /\ error' = "ServiceError"
  /\ UNCHANGED <<env, api_key, items, output, file, list_calls, result, cvars>>

\* lines 104-106: list_items returns the result set, of any size from 0
ListItemsReturns ==
  /\ pc = "called"
  /\ list_calls' = list_calls + 1
  /\ \E its \in ItemLists : items' = its
  /\ output' = <<>>
  /\ pc' = "building"
  /\ UNCHANGED <<env, api_key, file, actor_calls, error, result, cvars>>

\* line 104: list_items raises
ListItemsRaises ==
  /\ pc = "called"
  /\ list_calls' = list_calls + 1
  /\ pc' = "failed"
  /\ error' = "ServiceError"
  /\ UNCHANGED <<env, api_key, items, output, file, actor_calls, result, cvars>>

\* lines 107-129: one iteration of the loop over items
BuildEntry ==
  /\ pc = "building"
  /\ ~LoopDone(items, output)
  /\ LET it == items[Len(output) + 1]
     IN  \E md \in MarkdownifyResults(GetText(it)) :
           output' = Append(output, Entry(it, md))
  /\ UNCHANGED <<env, pc, api_key, items, file, actor_calls, list_calls, error,
                 result, cvars>>

\* lines 131-133: the loop is over; open output_json and dump output
SaveJson ==
  /\ pc = "building"
  /\ LoopDone(items, output)
  /\ file' = FileAfterDump(output)
  /\ pc' = "saved"
  /\ UNCHANGED <<env, api_key, items, output, actor_calls, list_calls, error,
                 result, cvars>>

\* line 132: open(output_json, "w") raises
SaveJsonRaises ==
  /\ pc = "building"
  /\ LoopDone(items, output)
  /\ pc' = "failed"
  /\ error' = "OSError"
  /\ UNCHANGED <<env, api_key, items, output, file, actor_calls, list_calls,
                 result, cvars>>

\* lines 135-138: return output
Return ==
  /\ pc = "saved"
  /\ result' = [returned |-> TRUE, value |-> output]
  /\ pc' = "returned"
  /\ UNCHANGED <<env, api_key, items, output, file, actor_calls, list_calls,
                 error, cvars>>

NextCrawl ==
  \/ CheckCredential
  \/ ActorCallReturns
  \/ ActorCallRaises
  \/ ListItemsReturns
  \/ ListItemsRaises
  \/ BuildEntry
  \/ SaveJson
  \/ SaveJsonRaises
  \/ Return

SpecCrawl == InitCrawl /\ [][NextCrawl]_vars

\* ------------------------------------------------------------ properties
Last(seq) == seq[Len(seq)]
HasLineBreak(s) == \E k \in 1..Len(s) : s[k] = NL
IsBlank(s) == \A k \in 1..Len(s) : s[k] \in Whitespace

\* the chunks emitted so far, with the accumulator as a last one if it holds
\* anything
Pending == IF current = <<>> THEN chunks ELSE Append(chunks, Strip(current))

\* the lines of ls, each followed by its line break: an untrimmed accumulator
RECURSIVE Untrimmed(_)
Untrimmed(ls) ==
  IF ls = <<>> THEN <<>> ELSE Head(ls) \o <<NL>> \o Untrimmed(Tail(ls))

\* cs are, in order, the trimmed forms of consecutive non-empty groups of
\* lines that together are exactly ls
RECURSIVE Reassembles(_, _)
Reassembles(ls, cs) ==
  IF cs = <<>>
    THEN ls = <<>>
    ELSE \E k \in 1..Len(ls) :
           /\ Strip(Untrimmed(SubSeq(ls, 1, k))) = Head(cs)
           /\ Reassembles(SubSeq(ls, k + 1, Len(ls)), Tail(cs))

\* C1: every chunk is at most max_chunk_chars long, unless it is a single
\* source line that is itself longer than max_chunk_chars; a chunk over the
\* limit never holds two lines.
C1_ChunkWithinLimit ==
  \A k \in 1..Len(chunks) :
    \/ Len(chunks[k]) <= max_chunk_chars
    \/ /\ ~HasLineBreak(chunks[k])
       /\ \E j \in 1..Len(paragraphs) :
            /\ Len(paragraphs[j]) > max_chunk_chars
            /\ chunks[k] = Strip(paragraphs[j])

\* C1 witness: a finished run with several chunks, one of them over the limit
C1_Witness ==
  /\ cpc = "done"
  /\ Len(chunks) >= 2
  /\ \E k \in 1..Len(chunks) : Len(chunks[k]) > max_chunk_chars

\* C2: with the trimming undone, the chunks are the lines of the text in
\* order: each chunk is the trimmed form of a group of consecutive lines, the
\* groups follow each other and leave no line out.  It holds of the lines
\* consumed so far at every step, and of all lines at the end.
C2_LinesPreserved ==
  /\ cpc = "loop" => Reassembles(SubSeq(paragraphs, 1, idx), Pending)
  /\ cpc = "done" => Reassembles(paragraphs, chunks)

\* C2 witness: a finished run with two chunks or more out of a text that has
\* blank lines as well as more lines than chunks
C2_Witness ==
  /\ cpc = "done"
  /\ Len(chunks) >= 2
  /\ Len(paragraphs) > Len(chunks)
  /\ \E j \in 1..Len(paragraphs) : IsBlank(paragraphs[j])

\* C3 as claimed: the empty text gives no chunk at all.
C3_EmptyTextNoChunks == (cpc = "done" /\ text = <<>>) => chunks = <<>>

\* lines that are not empty and hold no whitespace, but for a last empty line
\* when the text ends with a line break
PlainLines ==
  /\ \A k \in 1..Len(text) : text[k] # SP
  /\ \A j \in 1..(Len(paragraphs) - 1) : paragraphs[j] # <<>>
  /\ paragraphs[1] # <<>>

\* one such line repeated
RepeatedLines ==
  /\ PlainLines
  /\ \A j \in 1..Len(paragraphs) :
       paragraphs[j] = paragraphs[1] \/ (j = Len(paragraphs) /\ paragraphs[j] = <<>>)

\* a chunk has just been emitted and the accumulator restarted with the line
\* that did not fit
JustOverflowed ==
  /\ cpc = "loop"
  /\ idx >= 2
  /\ chunks # <<>>
  /\ current = paragraphs[idx] \o <<NL>>

\* C5 as claimed: a non-final chunk joined by a line break with the next
\* source line is longer than the limit.
C5_MaximalAsClaimed ==
  (RepeatedLines /\ JustOverflowed /\ paragraphs[idx] # <<>>) =>
    Len(Last(chunks)) + 1 + Len(paragraphs[idx]) > max_chunk_chars

\* C5 amended: a non-final chunk joined by a line break with the next source
\* line and that line's own line break is longer than the limit (the chunk
\* joined with the line alone is at least as long as the limit).
C5_MaximalWithLineBreak ==
  (PlainLines /\ JustOverflowed) =>
    Len(Last(chunks)) + 1 + Len(paragraphs[idx]) + 1 > max_chunk_chars

\* C5 witness: a chunk of two packed lines was emitted because the next line
\* did not fit
C5_Witness ==
  /\ PlainLines
  /\ JustOverflowed
  /\ HasLineBreak(Last(chunks))

\* C6 as claimed: a line longer than the limit starts an accumulator of its
\* own and is emitted unchanged, alone; a text of one such line gives that
\* line as its only chunk.
C6_OversizedAsClaimed ==
  /\ (cpc = "loop" /\ idx >= 1 /\ Len(paragraphs[idx]) > max_chunk_chars)
       => current = paragraphs[idx] \o <<NL>>
  /\ (cpc = "loop" /\ idx >= 2 /\ Len(paragraphs[idx - 1]) > max_chunk_chars)
       => (chunks # <<>> /\ Last(chunks) = paragraphs[idx - 1])
  /\ (cpc = "done" /\ Len(Last(paragraphs)) > max_chunk_chars)
       => (chunks # <<>> /\ Last(chunks) = Last(paragraphs))
  /\ (cpc = "done" /\ Len(paragraphs) = 1 /\ Len(text) > max_chunk_chars)
       => (chunks = <<text>> /\ Len(chunks[1]) = Len(text))

\* C6 amended: a line longer than the limit starts an accumulator of its own
\* and is emitted alone and whole but for its leading and trailing
\* whitespace, which the flush trims; a text of one such line gives the
\* trimmed line as its only chunk.
C6_OversizedTrimmed ==
  /\ (cpc = "loop" /\ idx >= 1 /\ Len(paragraphs[idx]) > max_chunk_chars)
       => current = paragraphs[idx] \o <<NL>>
  /\ (cpc = "loop" /\ idx >= 2 /\ Len(paragraphs[idx - 1]) > max_chunk_chars)
       => (chunks # <<>> /\ Last(chunks) = Strip(paragraphs[idx - 1]))
  /\ (cpc = "done" /\ Len(Last(paragraphs)) > max_chunk_chars)
       => (chunks # <<>> /\ Last(chunks) = Strip(Last(paragraphs)))
  /\ (cpc = "done" /\ Len(paragraphs) = 1 /\ Len(text) > max_chunk_chars)
       => (/\ chunks = <<Strip(text)>>
           /\ (Strip(text) = text => Len(chunks[1]) = Len(text)))

\* C6 witness: a finished run over a text with a line over the limit that
\* follows a line that is not empty and comes before another line
C6_Witness ==
  /\ cpc = "done"
  /\ \E j \in 2..(Len(paragraphs) - 1) :
       /\ Len(paragraphs[j]) > max_chunk_chars
       /\ paragraphs[j - 1] # <<>>

\* C10 as claimed: every chunk holds a character that is not whitespace.
C10_NoBlankChunk ==
  \A k \in 1..Len(chunks) : ~IsBlank(chunks[k])

\* C4 as claimed: with APIFY_API_TOKEN unset the function ends in the
\* configuration error, with no service call made and no file written.
C4_MissingTokenFails ==
  ~env.set =>
    /\ pc \in {"start", "failed"}
    /\ pc = "failed" => error = "ValueError"
    /\ actor_calls = 0
    /\ list_calls = 0
    /\ ~file.written

\* C7 as claimed: the record of an item with neither text nor markdown has
\* the empty text and no chunks.
C7_BareItemEmptyFields ==
  \A k \in 1..Len(output) :
    (~items[k].has_text /\ ~items[k].has_markdown) =>
      (output[k].text = <<>> /\ output[k].chunks = <<>>)

\* C8 as claimed: with an empty result set the function does not return.
C8_EmptyIsFailure ==
  (list_calls = 1 /\ items = <<>>) => ~result.returned

\* C8 amended: an empty result set is no failure; once the output file is
\* written the function returns the empty sequence, the file holding the
\* empty array.
C8_EmptyReturnsEmpty ==
  /\ (pc \in {"saved", "returned"} /\ items = <<>>)
       => (file = [written |-> TRUE, content |-> <<>>] /\ error = "none")
  /\ (pc = "returned" /\ items = <<>>)
       => result = [returned |-> TRUE, value |-> <<>>]

\* C8 witness: the function has returned from an empty result set
C8_Witness ==
  /\ pc = "returned"
  /\ list_calls = 1
  /\ items = <<>>

\* C9: the crawl is requested once at most and the result set read once at
\* most, the read only after the request; a run that builds, saves or returns
\* has made each call exactly once; a failed run has written no file and
\* returned nothing; the file is written only when every record is built, and
\* what is returned is what was written.
C9_OnceNoSalvage ==
  /\ actor_calls <= 1
  /\ list_calls <= 1
  /\ list_calls = 1 => actor_calls = 1
  /\ pc \in {"called"} => (actor_calls = 1 /\ list_calls = 0)
  /\ pc \in {"building", "saved", "returned"}
       => (actor_calls = 1 /\ list_calls = 1)
  /\ pc = "failed" => (~file.written /\ ~result.returned)
  /\ file.written => (Len(output) = Len(items) /\ file.content = output)
  /\ result.returned => (file.written /\ result.value = file.content)

\* C9 witness: a run that returned two records or more
C9_Witness ==
  /\ pc = "returned"
  /\ Len(items) >= 2
  /\ Len(result.value) = Len(items)

=============================================================================
